---- MODULE Spec2Model ----
(***************************************************************************)
(* Model of package phaser (phaser.go): a Phase threads one value through  *)
(* its pre-hooks, its execute function and its post-hooks, and stops at    *)
(* the first error.  One Phase is modelled; run is modelled step by step,  *)
(* one hook or execute invocation per step, the hook-attachment methods    *)
(* and the direct calls used by the tests as single steps.                 *)
(*                                                                         *)
(* handleError is a method of the Phaser interface that implementations    *)
(* are told to override; the model keeps the bound implementation in the   *)
(* variable handler ("default" is Phase.handleError).                      *)
(***************************************************************************)
EXTENDS Integers, Sequences, FiniteSets, TLC

\* ---- bounds ----
MaxOps == 3     \* attach operations performed on the Phase
MaxInput == 2   \* inputs of a call are 0..MaxInput
MaxChain == 2   \* hooks of a Phase that is configured before its runs are looked at
MaxGrown == 4   \* hooks of a Phase whose hooks attach hooks

\* ---- values and errors ----
Nil == -1            \* the nil interface{} value
NoErr == "nil"       \* the nil error
NoResult == <<>>     \* no (value, error) pair was returned
Unset == "unset"     \* execute == nil

Hooks == {"dbl", "half", "failA"}
Execs == {"xid", "xadd", "xfail"}
\* Hooks and an execute function that attach a hook to the Phase they belong
\* to (closures over the Phase) and pass their input on.
Attachers == {"appPre", "prePre", "appPost", "prePost"}
AttachingExec == "xatt"
RunIds == 1..2       \* the run invocations that are interleaved
Handlers == {"default", "recover", "rewrite"}
Inputs == 0..MaxInput
Errors == {"EA", "EX", "EH"}

\* A PhaseHook: value -> (value, error).
Hook(h, v) ==
  CASE h = "dbl"   -> <<v * 2, NoErr>>
    [] h = "half"  -> <<v \div 2, NoErr>>
    [] h = "failA" -> <<v + 2, "EA">>
    [] h \in Attachers -> <<v, NoErr>>

\* The execute field when it is set.
Exec(x, v) ==
  CASE x = "xid"   -> <<v, NoErr>>
    [] x = "xadd"  -> <<v + 3, NoErr>>
    [] x = "xfail" -> <<v, "EX">>
    [] x = AttachingExec -> <<v, NoErr>>

handleError_dropsErr(hd, e) ==
  CASE hd = "default" -> <<Nil, NoErr>>
    [] hd = "recover" -> <<9, NoErr>>
    [] hd = "rewrite" -> <<9, "EH">>

\* handleError of the bound Phaser implementation; "default" is
\* Phase.handleError, the others are overriding implementations.
handleError(hd, e) ==
  CASE hd = "default" -> <<Nil, e>>
    [] hd = "recover" -> <<9, NoErr>>
    [] hd = "rewrite" -> <<9, "EH">>

prependHook_atEnd(hooks, newHook) == Append(hooks, newHook)

prependHook(hooks, newHook) == <<newHook>> \o hooks

appendHook_atFront(hooks, newHook) == <<newHook>> \o hooks

appendHook_dedup(hooks, newHook) ==
  IF \E i \in 1..Len(hooks) : hooks[i] = newHook THEN hooks ELSE Append(hooks, newHook)

appendHook(hooks, newHook) == Append(hooks, newHook)

\* What the invocation of hook h does to the Phase ph: the attaching hooks
\* call an attach method of the Phase, the others leave it alone.
HookEffect(h, ph) ==
  CASE h = "appPre"  -> [ph EXCEPT !.preHooks = appendHook(@, "dbl")]
    [] h = "prePre"  -> [ph EXCEPT !.preHooks = prependHook(@, "dbl")]
    [] h = "appPost" -> [ph EXCEPT !.postHooks = appendHook(@, "dbl")]
    [] h = "prePost" -> [ph EXCEPT !.postHooks = prependHook(@, "dbl")]
    [] OTHER -> ph

\* The same for the history of the attach calls.
HookAttached(h, at) ==
  CASE h = "appPre"  -> [at EXCEPT !.pre.appended = Append(@, "dbl")]
    [] h = "prePre"  -> [at EXCEPT !.pre.prepended = Append(@, "dbl")]
    [] h = "appPost" -> [at EXCEPT !.post.appended = Append(@, "dbl")]
    [] h = "prePost" -> [at EXCEPT !.post.prepended = Append(@, "dbl")]
    [] OTHER -> at

\* What the invocation of the execute function x does to the Phase.
ExecEffect(x, ph) ==
  IF x = AttachingExec THEN HookEffect("appPost", ph) ELSE ph

ExecAttached(x, at) ==
  IF x = AttachingExec THEN HookAttached("appPost", at) ELSE at

\* The hooks the loop of processHooks goes through: range evaluates *hooks
\* once, before the first iteration, so the loop goes through the slice as
\* it was then (snap), not through the slice the Phase holds now (live).
rangeHooks_live(snap, live) == live

rangeHooks(snap, live) == snap

VARIABLES
  p,         \* the Phase struct: Name, preHooks, execute, postHooks
  handler,   \* the handleError implementation bound to the Phase
  attached,  \* history: per chain, the hooks prepended and appended, in call order
  op,        \* the call in progress or last made: <<method, argument>>
  pc,        \* position of the call
  value,     \* local variable value of run / processHooks
  rng,       \* the slice the range loop of processHooks iterates over
  idx,       \* index of the next hook of rng
  result,    \* the pair returned to the caller, NoResult if none
  trace,     \* history: invocations <<stage, function, input>> of the call
  handled,   \* history: errors handleError was invoked with in the call
  failures,  \* history: <<stage, error>> of the invocations that returned an error
  chainRes,  \* history: <<stage, pair>> returned by each processHooks of the call
  start,     \* history: the Phase as it was when the call began
  runs       \* the frames of the interleaved run invocations

vars == <<p, handler, attached, op, pc, value, rng, idx, result, trace,
          handled, failures, chainRes, start, runs>>

\* The slice the Phase holds now for the stage that is being applied.
LiveHooks == IF pc = "PreHooks" THEN p.preHooks ELSE p.postHooks

\* The frame of a run invocation that has not begun.
NoRun == [pc |-> "Idle", input |-> Nil, value |-> Nil, rng |-> <<>>, idx |-> 1,
          result |-> NoResult]

Running == pc \in {"PreHooks", "Execute", "PostHooks"}
Ended == pc \in {"Done", "Failed", "Panicked"}

NumOps == Len(p.preHooks) + Len(p.postHooks)

NoFrame ==
  /\ op = <<"none", Nil>>
  /\ pc = "Idle"
  /\ value = Nil
  /\ rng = <<>>
  /\ idx = 1
  /\ result = NoResult
  /\ trace = <<>>
  /\ handled = <<>>
  /\ failures = <<>>
  /\ chainRes = <<>>
  /\ start = p
  /\ runs = [i \in RunIds |-> NoRun]

Init ==
  /\ \E x \in Execs \cup {Unset} :
       p = [Name |-> "phase", preHooks |-> <<>>, execute |-> x, postHooks |-> <<>>]
  /\ handler \in Handlers
  /\ attached = [pre  |-> [prepended |-> <<>>, appended |-> <<>>],
                 post |-> [prepended |-> <<>>, appended |-> <<>>]]
  /\ NoFrame

\* ---- hook attachment (phaser.go 97-119) ----
\* An attach call is made between calls of run; the frame of the previous
\* call is gone.
Attach(name, h) ==
  /\ ~Running
  /\ NumOps < MaxOps
  /\ op' = <<name, h>>
  /\ pc' = "Idle"
  /\ value' = Nil
  /\ rng' = <<>>
  /\ idx' = 1
  /\ result' = NoResult
  /\ trace' = <<>>
  /\ handled' = <<>>
  /\ failures' = <<>>
  /\ chainRes' = <<>>
  /\ UNCHANGED <<handler, runs>>

prependPreHook ==
  \E h \in Hooks :
    /\ Attach("prependPreHook", h)
    /\ p' = [p EXCEPT !.preHooks = prependHook(@, h)]
    /\ attached' = [attached EXCEPT !.pre.prepended = Append(@, h)]
    /\ start' = p'

appendPreHook ==
  \E h \in Hooks :
    /\ Attach("appendPreHook", h)
    /\ p' = [p EXCEPT !.preHooks = appendHook(@, h)]
    /\ attached' = [attached EXCEPT !.pre.appended = Append(@, h)]
    /\ start' = p'

\* appendPostHook that appends to the pre-hooks.
appendPostHook_wrongChain ==
  \E h \in Hooks :
    /\ Attach("appendPostHook", h)
    /\ p' = [p EXCEPT !.preHooks = appendHook(@, h)]
    /\ attached' = [attached EXCEPT !.post.appended = Append(@, h)]
    /\ start' = p'

appendPostHook ==
  \E h \in Hooks :
    /\ Attach("appendPostHook", h)
    /\ p' = [p EXCEPT !.postHooks = appendHook(@, h)]
    /\ attached' = [attached EXCEPT !.post.appended = Append(@, h)]
    /\ start' = p'

prependPostHook ==
  \E h \in Hooks :
    /\ Attach("prependPostHook", h)
    /\ p' = [p EXCEPT !.postHooks = prependHook(@, h)]
    /\ attached' = [attached EXCEPT !.post.prepended = Append(@, h)]
    /\ start' = p'

\* ---- run (phaser.go 54-74) and processHooks (phaser.go 84-94) ----

\* What run does with the pair r that processHooks returned for stage:
\* return it when its error is non-nil (lines 58-60, 69-71), otherwise go
\* on to execute (after the pre-hooks) or return (value, nil) (line 73).
runAfterHooks_ignoresErr(stage, r) ==
  IF stage = "PreHooks"
    THEN [pc |-> "Execute", value |-> r[1], result |-> NoResult]
    ELSE [pc |-> "Done", value |-> r[1], result |-> <<r[1], NoErr>>]

runAfterHooks(stage, r) ==
  IF r[2] # NoErr
    THEN [pc |-> "Failed", value |-> r[1], result |-> r]
    ELSE IF stage = "PreHooks"
      THEN [pc |-> "Execute", value |-> r[1], result |-> NoResult]
      ELSE [pc |-> "Done", value |-> r[1], result |-> <<r[1], NoErr>>]

\* processHooks returned r to run in the stage pc.
HooksReturn(r) ==
  LET n == runAfterHooks(pc, r) IN
    /\ pc' = n.pc
    /\ value' = n.value
    /\ result' = n.result
    /\ chainRes' = Append(chainRes, <<pc, r>>)
    /\ rng' = <<>>
    /\ idx' = 1

\* A run that consumes the pre-hooks it is about to apply.
Run_dropsPreHooks ==
  \E v \in Inputs :
    /\ ~Running
    /\ op' = <<"run", v>>
    /\ pc' = "PreHooks"
    /\ value' = v
    /\ rng' = p.preHooks
    /\ idx' = 1
    /\ result' = NoResult
    /\ trace' = <<>>
    /\ handled' = <<>>
    /\ failures' = <<>>
    /\ chainRes' = <<>>
    /\ p' = [p EXCEPT !.preHooks = <<>>]
    /\ start' = p
    /\ UNCHANGED <<handler, attached, runs>>

\* p.run(v) is called: processHooks starts to range over the pre-hooks.
Run ==
  \E v \in Inputs :
    /\ ~Running
    /\ op' = <<"run", v>>
    /\ pc' = "PreHooks"
    /\ value' = v
    /\ rng' = p.preHooks
    /\ idx' = 1
    /\ result' = NoResult
    /\ trace' = <<>>
    /\ handled' = <<>>
    /\ failures' = <<>>
    /\ chainRes' = <<>>
    /\ start' = p
    /\ UNCHANGED <<p, handler, attached, runs>>

\* The test of line 88: the loop of processHooks stops at a hook whose
\* returned pair r has a non-nil error.
hookFailed_never(r) == FALSE

hookFailed(r) == r[2] # NoErr

\* Line 93: what processHooks returns when the loop is over.
hooksDone_nil(v) == <<Nil, NoErr>>

hooksDone(v) == <<v, NoErr>>

\* The range loop of line 87 moves on to the next element of the slice.
nextIdx_stuck(i) == i

nextIdx(i) == i + 1

\* One iteration of the loop of processHooks: the hook is invoked; if it
\* returns an error, processHooks returns what handleError returns.
InvokeHook ==
  /\ pc \in {"PreHooks", "PostHooks"}
  /\ idx <= Len(rangeHooks(rng, LiveHooks))
  /\ LET h == rangeHooks(rng, LiveHooks)[idx]
         r == Hook(h, value) IN
       /\ h \in Attachers => NumOps < MaxGrown
       /\ p' = HookEffect(h, p)
       /\ attached' = HookAttached(h, attached)
       /\ trace' = Append(trace, <<pc, h, value>>)
       /\ failures' = IF r[2] # NoErr THEN Append(failures, <<pc, r[2]>>) ELSE failures
       /\ IF hookFailed(r)
            THEN /\ handled' = Append(handled, r[2])
                 /\ HooksReturn(handleError(handler, r[2]))
            ELSE /\ value' = r[1]
                 /\ idx' = nextIdx(idx)
                 /\ UNCHANGED <<pc, rng, result, handled, chainRes>>
  /\ UNCHANGED <<handler, op, start, runs>>

\* The loop of processHooks is over: it returns (value, nil).
HooksExhausted ==
  /\ pc \in {"PreHooks", "PostHooks"}
  /\ idx > Len(rangeHooks(rng, LiveHooks))
  /\ HooksReturn(hooksDone(value))
  /\ UNCHANGED <<p, handler, attached, op, trace, handled, failures, start, runs>>

\* Lines 65-69 of run, for the pair r that execute returned: on an error
\* return what handleError returns (handled: the errors passed to it), else
\* go on to the post-hooks with the returned value.
runAfterExecute_noHandler(r) ==
  IF r[2] # NoErr
    THEN [pc |-> "Failed", value |-> r[1], result |-> r, handled |-> <<>>]
    ELSE [pc |-> "PostHooks", value |-> r[1], result |-> NoResult, handled |-> <<>>]

runAfterExecute_keepsInput(r) ==
  IF r[2] # NoErr
    THEN [pc |-> "Failed", value |-> r[1], result |-> handleError(handler, r[2]),
          handled |-> <<r[2]>>]
    ELSE [pc |-> "PostHooks", value |-> value, result |-> NoResult, handled |-> <<>>]

runAfterExecute_postOnError(r) ==
  IF r[2] # NoErr
    THEN [pc |-> "PostHooks", value |-> r[1], result |-> NoResult,
          handled |-> <<r[2]>>]
    ELSE [pc |-> "PostHooks", value |-> r[1], result |-> NoResult, handled |-> <<>>]

runAfterExecute(r) ==
  IF r[2] # NoErr
    THEN [pc |-> "Failed", value |-> r[1], result |-> handleError(handler, r[2]),
          handled |-> <<r[2]>>]
    ELSE [pc |-> "PostHooks", value |-> r[1], result |-> NoResult, handled |-> <<>>]

\* A run that treats a nil execute as a function that returns its input.
Execute_noNilCheck ==
  /\ pc = "Execute"
  /\ LET r == IF p.execute = Unset THEN <<value, NoErr>> ELSE Exec(p.execute, value)
         n == runAfterExecute(r) IN
       /\ trace' = Append(trace, <<"Execute", p.execute, value>>)
       /\ failures' = IF r[2] # NoErr THEN Append(failures, <<"Execute", r[2]>>)
                                     ELSE failures
       /\ handled' = handled \o n.handled
       /\ pc' = n.pc
       /\ value' = n.value
       /\ result' = n.result
       /\ rng' = IF n.pc = "PostHooks" THEN p.postHooks ELSE rng
       /\ idx' = 1
  /\ UNCHANGED <<p, handler, attached, op, chainRes, start, runs>>

\* Lines 62-69 of run: panic when execute is nil, else call it; after a
\* success processHooks starts to range over the post-hooks.
Execute ==
  /\ pc = "Execute"
  /\ IF p.execute = Unset
       THEN /\ pc' = "Panicked"
            /\ UNCHANGED <<p, attached, value, rng, idx, result, trace, handled,
                           failures>>
       ELSE LET r == Exec(p.execute, value)
                n == runAfterExecute(r) IN
              /\ p.execute = AttachingExec => NumOps < MaxGrown
              /\ p' = ExecEffect(p.execute, p)
              /\ attached' = ExecAttached(p.execute, attached)
              /\ trace' = Append(trace, <<"Execute", p.execute, value>>)
              /\ failures' = IF r[2] # NoErr
                               THEN Append(failures, <<"Execute", r[2]>>)
                               ELSE failures
              /\ handled' = handled \o n.handled
              /\ pc' = n.pc
              /\ value' = n.value
              /\ result' = n.result
              /\ rng' = IF n.pc = "PostHooks" THEN p'.postHooks ELSE rng
              /\ idx' = 1
  /\ UNCHANGED <<handler, op, chainRes, start, runs>>

\* p.execute(v) called directly, as the tests do: calling a nil func panics.
ExecuteDirect ==
  \E v \in Inputs :
    /\ ~Running
    /\ op' = <<"execute", v>>
    /\ value' = v
    /\ rng' = <<>>
    /\ idx' = 1
    /\ handled' = <<>>
    /\ failures' = <<>>
    /\ chainRes' = <<>>
    /\ IF p.execute = Unset
         THEN /\ pc' = "Panicked"
              /\ result' = NoResult
              /\ trace' = <<>>
         ELSE /\ pc' = "Done"
              /\ result' = Exec(p.execute, v)
              /\ trace' = <<<<"Execute", p.execute, v>>>>
    /\ start' = p
    /\ UNCHANGED <<p, handler, attached, runs>>

\* p.handleError(e) called directly.
HandleErrorDirect ==
  \E e \in Errors :
    /\ ~Running
    /\ op' = <<"handleError", e>>
    /\ pc' = "Done"
    /\ value' = Nil
    /\ rng' = <<>>
    /\ idx' = 1
    /\ result' = handleError(handler, e)
    /\ trace' = <<>>
    /\ handled' = <<e>>
    /\ failures' = <<>>
    /\ chainRes' = <<>>
    /\ start' = p
    /\ UNCHANGED <<p, handler, attached, runs>>

Next ==
  \/ prependPreHook
  \/ appendPreHook
  \/ appendPostHook
  \/ prependPostHook
  \/ Run
  \/ InvokeHook
  \/ HooksExhausted
  \/ Execute
  \/ ExecuteDirect
  \/ HandleErrorDirect

Spec == Init /\ [][Next]_vars

\* ---- runs of a configured Phase ----
\* The sequences over S of length at most n.
SeqsUpTo(S, n) == UNION {[1..k -> S] : k \in 0..n}

\* The Phases with at most n hooks taken from hs and execute taken from xs.
Phases(hs, xs, n) ==
  {[Name |-> "phase", preHooks |-> a, execute |-> x, postHooks |-> b] :
     <<a, b>> \in {c \in SeqsUpTo(hs, n) \X SeqsUpTo(hs, n) : Len(c[1]) + Len(c[2]) <= n},
     x \in xs}

\* A Phase whose hooks were attached, by appends, before its runs.
InitConfigured ==
  /\ p \in Phases(Hooks, Execs \cup {Unset}, MaxChain)
  /\ handler \in Handlers
  /\ attached = [pre  |-> [prepended |-> <<>>, appended |-> p.preHooks],
                 post |-> [prepended |-> <<>>, appended |-> p.postHooks]]
  /\ NoFrame

NextRuns ==
  \/ Run
  \/ InvokeHook
  \/ HooksExhausted
  \/ Execute

\* run is a sequential call: once called, each of its steps is taken, given
\* that the hook or execute function it invokes returns.
SpecRuns ==
  InitConfigured /\ [][NextRuns]_vars /\ WF_vars(InvokeHook \/ HooksExhausted \/ Execute)

\* ---- runs of a Phase whose hooks attach hooks to it ----
InitAttaching ==
  /\ p \in Phases(Attachers \cup {"dbl", "failA"}, {"xid", AttachingExec, Unset}, MaxChain)
  /\ handler \in Handlers
  /\ attached = [pre  |-> [prepended |-> <<>>, appended |-> p.preHooks],
                 post |-> [prepended |-> <<>>, appended |-> p.postHooks]]
  /\ NoFrame

SpecAttach == InitAttaching /\ [][NextRuns]_vars

\* ---- interleaved runs of one configured Phase ----
seqVars == <<p, handler, attached, op, pc, value, rng, idx, result, trace,
             handled, failures, chainRes, start>>

\* The value of invocation i of run: run's parameter and local variable
\* value, which each invocation has for itself.
runValue_shared(i) == runs[1].value

runValue(i) == runs[i].value

\* The frame f after processHooks returned r to run (as HooksReturn).
FrameAfterHooks(f, r) ==
  LET n == runAfterHooks(f.pc, r) IN
    [f EXCEPT !.pc = n.pc, !.value = n.value, !.result = n.result,
              !.rng = <<>>, !.idx = 1]

\* Invocation i of p.run(v) begins (as Run).
CRun(i) ==
  \E v \in Inputs :
    /\ runs[i].pc \notin {"PreHooks", "Execute", "PostHooks"}
    /\ runs' = [runs EXCEPT ![i] = [pc |-> "PreHooks", input |-> v, value |-> v,
                                    rng |-> p.preHooks, idx |-> 1,
                                    result |-> NoResult]]
    /\ UNCHANGED seqVars

\* One iteration of the loop of processHooks in invocation i (as InvokeHook).
CInvokeHook(i) ==
  LET f == runs[i] IN
    /\ f.pc \in {"PreHooks", "PostHooks"}
    /\ f.idx <= Len(f.rng)
    /\ LET r == Hook(f.rng[f.idx], runValue(i)) IN
         runs' = [runs EXCEPT ![i] =
                    IF hookFailed(r)
                      THEN FrameAfterHooks(f, handleError(handler, r[2]))
                      ELSE [f EXCEPT !.value = r[1], !.idx = nextIdx(@)]]
    /\ UNCHANGED seqVars

\* The loop of processHooks is over in invocation i (as HooksExhausted).
CHooksExhausted(i) ==
  LET f == runs[i] IN
    /\ f.pc \in {"PreHooks", "PostHooks"}
    /\ f.idx > Len(f.rng)
    /\ runs' = [runs EXCEPT ![i] = FrameAfterHooks(f, hooksDone(runValue(i)))]
    /\ UNCHANGED seqVars

\* Lines 62-69 of run in invocation i (as Execute).
CExecute(i) ==
  LET f == runs[i] IN
    /\ f.pc = "Execute"
    /\ runs' = [runs EXCEPT ![i] =
                  IF p.execute = Unset
                    THEN [f EXCEPT !.pc = "Panicked"]
                    ELSE LET n == runAfterExecute(Exec(p.execute, runValue(i))) IN
                           [f EXCEPT !.pc = n.pc, !.value = n.value,
                                     !.result = n.result,
                                     !.rng = IF n.pc = "PostHooks" THEN p.postHooks
                                                                   ELSE <<>>,
                                     !.idx = 1]]
    /\ UNCHANGED seqVars

NextConc ==
  \/ \E i \in RunIds : CRun(i)
  \/ \E i \in RunIds : CInvokeHook(i)
  \/ \E i \in RunIds : CHooksExhausted(i)
  \/ \E i \in RunIds : CExecute(i)

SpecConc == InitConfigured /\ [][NextConc]_vars

TypeOK ==
  /\ pc \in {"Idle", "PreHooks", "Execute", "PostHooks", "Done", "Failed", "Panicked"}
  /\ handler \in Handlers
  /\ p.execute \in Execs \cup {Unset}
  /\ NumOps <= MaxOps

\* ---- helpers of the properties ----
RECURSIVE Reverse(_)
Reverse(sq) == IF sq = <<>> THEN <<>> ELSE Append(Reverse(Tail(sq)), Head(sq))

\* The invocations of the call that belong to one stage.
StageTrace(stage) == SelectSeq(trace, LAMBDA t : t[1] = stage)

\* The value a list of hooks that all succeed makes of v.
RECURSIVE Compose(_, _)
Compose(hooks, v) ==
  IF hooks = <<>> THEN v ELSE Compose(Tail(hooks), Hook(Head(hooks), v)[1])

\* No hook of the list returns an error when the list is applied to v.
RECURSIVE AllPass(_, _)
AllPass(hooks, v) ==
  \/ hooks = <<>>
  \/ /\ Hook(Head(hooks), v)[2] = NoErr
     /\ AllPass(Tail(hooks), Hook(Head(hooks), v)[1])

InRun == op[1] = "run"

\* The pairs processHooks returned for a stage in this call.
StageRes(stage) == SelectSeq(chainRes, LAMBDA c : c[1] = stage)

\* The stage's chain application is over.
StageOver(stage) == StageRes(stage) # <<>>

\* The input of the post-chain: what execute returned.
PostInput ==
  LET x == StageTrace("Execute") IN
    IF x = <<>> THEN Nil ELSE Exec(x[1][2], x[1][3])[1]

\* The invocations tr of one chain application follow the list hooks from
\* its first hook on, each with the value the one before it returned, the
\* first with the input in.
FollowsOrder(tr, hooks, in) ==
  /\ Len(tr) <= Len(hooks)
  /\ \A i \in 1..Len(tr) :
       /\ tr[i][2] = hooks[i]
       /\ tr[i][3] = IF i = 1 THEN in ELSE Hook(tr[i-1][2], tr[i-1][3])[1]

\* C1: a chain built by appends only is applied in the order of the appends:
\* the hooks invoked are h1, h2, ... in that order, h1 with the chain's input
\* and each other hook with the value the hook before it returned, and all n
\* hooks are invoked when none of them returns an error.
C1_AppendOrder ==
  InRun =>
    /\ attached.pre.prepended = <<>> =>
         /\ FollowsOrder(StageTrace("PreHooks"), attached.pre.appended, op[2])
         /\ (StageOver("PreHooks") /\ AllPass(attached.pre.appended, op[2]))
              => Len(StageTrace("PreHooks")) = Len(attached.pre.appended)
    /\ attached.post.prepended = <<>> =>
         /\ FollowsOrder(StageTrace("PostHooks"), attached.post.appended, PostInput)
         /\ (StageOver("PostHooks") /\ AllPass(attached.post.appended, PostInput))
              => Len(StageTrace("PostHooks")) = Len(attached.post.appended)

C1_Witness ==
  /\ InRun
  /\ attached.pre.prepended = <<>>
  /\ attached.pre.appended = <<"dbl", "half", "dbl">>
  /\ op[2] = 1
  /\ StageOver("PreHooks")
  /\ Len(StageTrace("PreHooks")) = 3

\* C2: after any interleaving of prepends and appends a chain is the
\* prepended hooks in reverse call order followed by the appended hooks in
\* call order; right after prepend(h), h is at the first index, right after
\* append(h), h is at the last index.
C2_ChainLayout ==
  /\ p.preHooks = Reverse(attached.pre.prepended) \o attached.pre.appended
  /\ p.postHooks = Reverse(attached.post.prepended) \o attached.post.appended
  /\ op[1] = "prependPreHook" => p.preHooks[1] = op[2]
  /\ op[1] = "appendPreHook" => p.preHooks[Len(p.preHooks)] = op[2]
  /\ op[1] = "prependPostHook" => p.postHooks[1] = op[2]
  /\ op[1] = "appendPostHook" => p.postHooks[Len(p.postHooks)] = op[2]

C2_Witness ==
  /\ op = <<"prependPostHook", "failA">>
  /\ attached.post.prepended = <<"dbl", "failA">>
  /\ attached.post.appended = <<"half">>
  /\ p.postHooks = <<"failA", "dbl", "half">>

\* The chain a stage applies.
ChainOf(stage) == IF stage = "PreHooks" THEN p.preHooks ELSE p.postHooks

ChainInput(stage) == IF stage = "PreHooks" THEN op[2] ELSE PostInput

\* C3 for one stage: when a hook of the chain has returned an error, that
\* hook is hook k of the chain, the invocations of the application are
\* hooks 1..k once each in order, and the application returned the pair
\* handleError returns for that error.
ShortCircuit(stage) ==
  LET tr == StageTrace(stage)
      k == Len(tr)
      fs == SelectSeq(failures, LAMBDA f : f[1] = stage)
  IN fs # <<>> =>
       /\ Len(fs) = 1
       /\ k >= 1
       /\ FollowsOrder(tr, ChainOf(stage), ChainInput(stage))
       /\ Hook(tr[k][2], tr[k][3])[2] = fs[1][2]
       /\ \A i \in 1..(k-1) : Hook(tr[i][2], tr[i][3])[2] = NoErr
       /\ StageRes(stage) = << <<stage, handleError(handler, fs[1][2])>> >>

\* C3: if hook k of a chain returns an error, hooks 1..k have been invoked
\* once each in order, hooks k+1..n are not invoked in that application, and
\* the application returns the pair the error handler returns for the error.
C3_ShortCircuit ==
  InRun => (ShortCircuit("PreHooks") /\ ShortCircuit("PostHooks"))

C3_Witness ==
  /\ InRun
  /\ Ended
  /\ p.preHooks = <<"dbl", "failA", "half">>
  /\ failures = << <<"PreHooks", "EA">> >>
  /\ Len(trace) = 2

\* C4: with execute assigned, when every pre-hook, execute and every
\* post-hook succeeds, run returns (post(execute(pre(v))), nil); with a
\* doubling pre-chain, a pass-through execute and a halving post-chain it
\* returns (v, nil).
C4_RunComposes ==
  (InRun /\ Ended /\ p.execute # Unset) =>
    LET v == op[2]
        a == Compose(p.preHooks, v)
        b == Exec(p.execute, a)
    IN /\ (/\ AllPass(p.preHooks, v)
           /\ b[2] = NoErr
           /\ AllPass(p.postHooks, b[1]))
          => /\ pc = "Done"
             /\ result = <<Compose(p.postHooks, b[1]), NoErr>>
       /\ (p.preHooks = <<"dbl">> /\ p.execute = "xid" /\ p.postHooks = <<"half">>)
          => result = <<v, NoErr>>

C4_Witness ==
  /\ InRun
  /\ pc = "Done"
  /\ p.preHooks = <<"dbl">>
  /\ p.execute = "xadd"
  /\ p.postHooks = <<"half", "dbl">>
  /\ op[2] = 2
  /\ result = <<6, NoErr>>

\* Some invocation of the call belongs to one of the stages.
Invoked(stages) == \E i \in 1..Len(trace) : trace[i][1] \in stages

\* A hook of the stage, or execute, has returned an error in this call.
FailedIn(stage) == \E i \in 1..Len(failures) : failures[i][1] = stage

\* The error the stage failed with.
ErrorOf(stage) == SelectSeq(failures, LAMBDA f : f[1] = stage)[1][2]

C6_ExecuteErrorEndsRun ==
  (InRun /\ ~FailedIn("PreHooks") /\ FailedIn("Execute")) =>
    /\ ~Invoked({"PostHooks"})
    /\ ~StageOver("PostHooks")
    /\ pc = "Failed"
    /\ result = handleError(handler, ErrorOf("Execute"))

C6_Witness ==
  /\ InRun
  /\ p.preHooks = <<"dbl">>
  /\ p.postHooks = <<"half", "dbl">>
  /\ p.execute = "xfail"
  /\ handler = "recover"
  /\ failures = << <<"Execute", "EX">> >>
  /\ result = <<9, NoErr>>

\* C7 as stated: with execute unset, run and a direct call of execute abort
\* with a fatal fault and return no pair, whatever the input and the chains.
C7_UnsetAlwaysAborts ==
  (op[1] \in {"run", "execute"} /\ p.execute = Unset /\ Ended) =>
    (pc = "Panicked" /\ result = NoResult)

\* C7 amended: with execute unset, a direct call of execute aborts; run
\* aborts, returning no pair, exactly when the application of the pre-chain
\* returns a nil error, and otherwise returns the pair that application
\* returned; no post-hook is invoked and run never ends normally.
C7_UnsetAbortsAfterPreHooks ==
  /\ (op[1] = "execute" /\ p.execute = Unset) => (pc = "Panicked" /\ result = NoResult)
  /\ (InRun /\ p.execute = Unset) =>
       /\ pc \notin {"PostHooks", "Done"}
       /\ ~Invoked({"Execute", "PostHooks"})
       /\ Ended =>
            LET r == StageRes("PreHooks")[1][2] IN
              IF r[2] = NoErr
                THEN pc = "Panicked" /\ result = NoResult
                ELSE pc = "Failed" /\ result = r

C7_Witness ==
  /\ InRun
  /\ p.execute = Unset
  /\ pc = "Panicked"
  /\ p.preHooks = <<"dbl", "half">>
  /\ p.postHooks = <<"failA">>
  /\ Len(trace) = 2

\* C8 as stated: every run that ends in Failed or by the fault of an unset
\* execute has invoked the error handler.
C8_FailedAlwaysHandled ==
  (InRun /\ pc \in {"Failed", "Panicked"}) => handled # <<>>

\* C8 amended: every run in which a pre-hook, execute or a post-hook has
\* returned an error has invoked the error handler with that error, at the
\* latest when the failing invocation's step is over, and so before the run
\* ends; the fault of an unset execute invokes no error handler.
C8_ErrorsAreHandled ==
  InRun =>
    /\ handled = [i \in 1..Len(failures) |-> failures[i][2]]
    /\ pc = "Failed" => handled # <<>>
    /\ (pc = "Panicked" /\ failures = <<>>) => handled = <<>>

C8_Witness ==
  /\ InRun
  /\ pc = "Failed"
  /\ p.postHooks = <<"dbl", "failA">>
  /\ p.execute = "xadd"
  /\ handled = <<"EA">>

\* C9: applying an empty chain to V invokes no hook and no error handler and
\* returns (V, nil); run with both chains empty and a succeeding execute
\* returns execute's result.
C9_EmptyChain ==
  InRun =>
    /\ (p.preHooks = <<>> /\ StageOver("PreHooks")) =>
         /\ StageRes("PreHooks") = << <<"PreHooks", <<op[2], NoErr>> >> >>
         /\ ~Invoked({"PreHooks"})
         /\ ~FailedIn("PreHooks")
         /\ pc = "Execute" => (trace = <<>> /\ handled = <<>>)
    /\ (p.postHooks = <<>> /\ StageOver("PostHooks")) =>
         /\ StageRes("PostHooks") = << <<"PostHooks", <<PostInput, NoErr>> >> >>
         /\ ~Invoked({"PostHooks"})
         /\ ~FailedIn("PostHooks")
         /\ result = <<PostInput, NoErr>>
    /\ (/\ p.preHooks = <<>> /\ p.postHooks = <<>> /\ p.execute # Unset /\ Ended
        /\ Exec(p.execute, op[2])[2] = NoErr)
         => (pc = "Done" /\ result = Exec(p.execute, op[2]) /\ handled = <<>>)

C9_Witness ==
  /\ InRun
  /\ pc = "Done"
  /\ p.preHooks = <<>>
  /\ p.postHooks = <<>>
  /\ p.execute = "xadd"
  /\ op[2] = 1
  /\ result = <<4, NoErr>>

\* C10: the default handleError(err) returns (nil, err) for every err, called
\* directly or by run, and changes neither chain nor the execute function.
C10_DefaultHandler ==
  /\ [](handler = "default" =>
          /\ op[1] = "handleError" => result = <<Nil, op[2]>>
          /\ (InRun /\ pc = "Failed") => result = <<Nil, failures[1][2]>>)
  /\ [][(handled' # handled /\ handled' # <<>>) => p' = p]_vars

C10_Witness ==
  /\ handler = "default"
  /\ op = <<"handleError", "EX">>
  /\ result = <<Nil, "EX">>
  /\ p.preHooks # <<>>
  /\ p.postHooks # <<>>

\* ---- run and processHooks as functions of the Phase, the handler and the input ----

\* processHooks (phaser.go 84-94) applied to v.
RECURSIVE ApplyChain(_, _, _)
ApplyChain(hooks, hd, v) ==
  IF hooks = <<>>
    THEN <<v, NoErr>>
    ELSE LET r == Hook(Head(hooks), v) IN
           IF r[2] # NoErr THEN handleError(hd, r[2])
                           ELSE ApplyChain(Tail(hooks), hd, r[1])

\* run (phaser.go 54-74) applied to v: the pair returned, NoResult for the panic.
RunOutcome(ph, hd, v) ==
  LET a == ApplyChain(ph.preHooks, hd, v) IN
    IF a[2] # NoErr THEN a
    ELSE IF ph.execute = Unset THEN NoResult
    ELSE LET b == Exec(ph.execute, a[1]) IN
           IF b[2] # NoErr THEN handleError(hd, b[2])
           ELSE LET c == ApplyChain(ph.postHooks, hd, b[1]) IN
                  IF c[2] # NoErr THEN c ELSE <<c[1], NoErr>>

\* C11: with the default error handler run returns a non-nil error exactly
\* when some invoked stage returned an error; the returned value is then nil,
\* whatever value the failing stage returned, and the returned error is the
\* error of the first stage that failed.
C11_DefaultRunError ==
  (InRun /\ handler = "default" /\ pc \in {"Done", "Failed"}) =>
    /\ result[2] # NoErr <=> failures # <<>>
    /\ failures = <<>> => pc = "Done"
    /\ failures # <<>> =>
         /\ pc = "Failed"
         /\ result = <<Nil, failures[1][2]>>
         /\ LET last == trace[Len(trace)] IN
              /\ failures = << <<last[1], failures[1][2]>> >>
              /\ \A i \in 1..(Len(trace) - 1) :
                   IF trace[i][1] = "Execute"
                     THEN Exec(trace[i][2], trace[i][3])[2] = NoErr
                     ELSE Hook(trace[i][2], trace[i][3])[2] = NoErr

C11_Witness ==
  /\ InRun
  /\ handler = "default"
  /\ pc = "Failed"
  /\ p.postHooks = <<"dbl", "failA", "half">>
  /\ p.execute = "xadd"
  /\ op[2] = 1
  /\ trace[Len(trace)] = <<"PostHooks", "failA", 8>>
  /\ result = <<Nil, "EA">>

StageRank(stage) ==
  CASE stage = "PreHooks" -> 1 [] stage = "Execute" -> 2 [] stage = "PostHooks" -> 3

\* The transitions of pc inside a run (the fault of an unset execute is the
\* failure that leaves Execute).
RunTransitions ==
  { <<"PreHooks", "PreHooks">>, <<"PreHooks", "Execute">>, <<"PreHooks", "Failed">>,
    <<"Execute", "PostHooks">>, <<"Execute", "Failed">>, <<"Execute", "Panicked">>,
    <<"PostHooks", "PostHooks">>, <<"PostHooks", "Done">>, <<"PostHooks", "Failed">> }

\* C12: a run only moves PreHooks -> Execute -> PostHooks -> Done or from a
\* stage to a failure: the pre-hook invocations precede that of execute,
\* execute is invoked at most once, post-hooks are invoked only after a
\* successful execute, and after Done or Failed nothing is invoked in that run.
C12_StageOrder ==
  /\ [](InRun =>
          /\ \A i, j \in 1..Len(trace) :
               i < j => StageRank(trace[i][1]) <= StageRank(trace[j][1])
          /\ Len(StageTrace("Execute")) <= 1
          /\ (Invoked({"PostHooks"}) \/ pc \in {"PostHooks", "Done"}) =>
               /\ Len(StageTrace("Execute")) = 1
               /\ ~FailedIn("Execute")
               /\ StageOver("PreHooks")
          /\ Invoked({"Execute"}) => StageOver("PreHooks"))
  /\ [][Running => <<pc, pc'>> \in RunTransitions]_vars
  /\ [][(InRun /\ Ended /\ trace' # trace) =>
          (pc' \in {"Idle", "PreHooks"} \/ op'[1] # "run")]_vars

C12_Witness ==
  /\ InRun
  /\ pc = "Done"
  /\ Len(StageTrace("PreHooks")) = 1
  /\ Len(StageTrace("Execute")) = 1
  /\ Len(StageTrace("PostHooks")) = 2

\* C13: run and the application of a chain never modify the Phase: every
\* step of a call leaves the pre-chain, the post-chain and execute as they
\* were, and the outcome of a run is a function of the Phase, the handler
\* and the input, so that a repeated run returns the same result.
C13_RunLeavesPhase ==
  /\ [][pc' # "Idle" => p' = p]_vars
  /\ [](InRun /\ Ended =>
          /\ result = RunOutcome(p, handler, op[2])
          /\ pc = "Panicked" <=> RunOutcome(p, handler, op[2]) = NoResult)

C13_Witness ==
  /\ InRun
  /\ pc = "Failed"
  /\ p.preHooks = <<"dbl">>
  /\ p.postHooks = <<"half", "failA">>
  /\ p.execute = "xid"
  /\ handler = "rewrite"
  /\ result = <<9, "EH">>

\* C14: each of the four attach methods changes only its own chain: the
\* other chain, execute and Name are unchanged and the hooks that were in
\* the target chain keep their order.
C14_AttachFrame ==
  /\ [][p'.execute = p.execute /\ p'.Name = p.Name]_vars
  /\ [][attached' # attached =>
          /\ op'[1] \in {"prependPreHook", "appendPreHook"} =>
               p'.postHooks = p.postHooks
          /\ op'[1] \in {"prependPostHook", "appendPostHook"} =>
               p'.preHooks = p.preHooks
          /\ op'[1] = "prependPreHook" => Tail(p'.preHooks) = p.preHooks
          /\ op'[1] = "prependPostHook" => Tail(p'.postHooks) = p.postHooks
          /\ op'[1] = "appendPreHook" =>
               SubSeq(p'.preHooks, 1, Len(p'.preHooks) - 1) = p.preHooks
          /\ op'[1] = "appendPostHook" =>
               SubSeq(p'.postHooks, 1, Len(p'.postHooks) - 1) = p.postHooks]_vars

C14_Witness ==
  /\ op = <<"appendPostHook", "half">>
  /\ p.preHooks = <<"failA">>
  /\ p.postHooks = <<"dbl", "half">>

\* The number of occurrences of h in a sequence of hooks.
Count(h, sq) == Cardinality({i \in 1..Len(sq) : sq[i] = h})

\* The number of invocations of h in the stage.
Invocations(h, stage) ==
  Cardinality({i \in 1..Len(trace) : trace[i][1] = stage /\ trace[i][2] = h})

\* C15: every attach adds exactly one element to its chain, also when the
\* hook is already there: a hook attached n times is n times in the chain and
\* is invoked n times by a successful application; no chain ever gets shorter.
C15_AttachGrowsByOne ==
  /\ [][/\ Len(p'.preHooks) >= Len(p.preHooks)
        /\ Len(p'.postHooks) >= Len(p.postHooks)
        /\ attached' # attached =>
             /\ op'[1] \in {"prependPreHook", "appendPreHook"} =>
                  Len(p'.preHooks) = Len(p.preHooks) + 1
             /\ op'[1] \in {"prependPostHook", "appendPostHook"} =>
                  Len(p'.postHooks) = Len(p.postHooks) + 1]_vars
  /\ [](\A h \in Hooks :
          /\ Count(h, p.preHooks) =
               Count(h, attached.pre.prepended) + Count(h, attached.pre.appended)
          /\ Count(h, p.postHooks) =
               Count(h, attached.post.prepended) + Count(h, attached.post.appended)
          /\ (InRun /\ StageOver("PreHooks") /\ ~FailedIn("PreHooks")) =>
               Invocations(h, "PreHooks") = Count(h, p.preHooks)
          /\ (InRun /\ StageOver("PostHooks") /\ ~FailedIn("PostHooks")) =>
               Invocations(h, "PostHooks") = Count(h, p.postHooks))

C15_Witness ==
  /\ InRun
  /\ attached.pre.prepended = <<"dbl">>
  /\ attached.pre.appended = <<"dbl", "dbl">>
  /\ StageOver("PreHooks")
  /\ Invocations("dbl", "PreHooks") = 3

C18_RunTerminates ==
  /\ [](InRun =>
          /\ Len(trace) <= Len(p.preHooks) + 1 + Len(p.postHooks)
          /\ \A st \in {"PreHooks", "PostHooks"} :
               LET tr == StageTrace(st) IN
                 /\ Len(tr) <= Len(ChainOf(st))
                 /\ \A i \in 1..Len(tr) : tr[i][2] = ChainOf(st)[i]
                 /\ pc = st => Len(tr) = idx - 1)
  /\ (InRun /\ Running) ~> Ended

C18_Witness ==
  /\ InRun
  /\ pc = "Done"
  /\ Len(p.preHooks) = 1
  /\ Len(p.postHooks) = 1
  /\ Len(trace) = 3

\* The Phase that ph becomes by the invocations tr.
RECURSIVE EffectsOf(_, _)
EffectsOf(tr, ph) ==
  IF tr = <<>> THEN ph
  ELSE EffectsOf(Tail(tr),
                 IF Head(tr)[1] = "Execute" THEN ExecEffect(Head(tr)[2], ph)
                                            ELSE HookEffect(Head(tr)[2], ph))

\* The invocations of the stage are those of the hooks of chain, from the
\* first on, once each, and of all of them when the application is over and
\* no hook has failed.
AppliesChain(stage, chain) ==
  LET tr == StageTrace(stage) IN
    /\ Len(tr) <= Len(chain)
    /\ \A i \in 1..Len(tr) : tr[i][2] = chain[i]
    /\ (StageOver(stage) /\ ~FailedIn(stage)) => Len(tr) = Len(chain)

\* C19: an application goes through the hooks that were in the chain when it
\* started: hooks that an invoked hook attaches to the chain being applied
\* are not invoked in that application, no hook of the starting chain is
\* skipped or invoked twice, and the attached hooks are in the chain
\* afterwards, for the next application; the post-chain application of a run
\* goes through the post-chain as the pre-hooks and execute of that run left it.
C19_RangeSnapshot ==
  InRun =>
    /\ p = EffectsOf(trace, start)
    /\ AppliesChain("PreHooks", start.preHooks)
    /\ AppliesChain("PostHooks",
         EffectsOf(SelectSeq(trace, LAMBDA t : t[1] # "PostHooks"), start).postHooks)

C19_Witness ==
  /\ InRun
  /\ pc = "Done"
  /\ start.preHooks = <<"appPost", "prePre">>
  /\ start.postHooks = <<>>
  /\ start.execute = "xid"
  /\ [i \in 1..Len(trace) |-> <<trace[i][1], trace[i][2]>>] =
       << <<"PreHooks", "appPost">>, <<"PreHooks", "prePre">>,
          <<"Execute", "xid">>, <<"PostHooks", "dbl">> >>
  /\ p.preHooks = <<"dbl", "appPost", "prePre">>

\* C16: when run invocations on one Phase are interleaved hook by hook, with
\* no attach going on and hooks and execute that are functions of their
\* input, each invocation ends as it does when run alone, and a step of one
\* invocation leaves the frame, so the in-flight value, of the other alone.
C16_InterleavedRuns ==
  /\ [](\A i \in RunIds :
          runs[i].pc \in {"Done", "Failed", "Panicked"} =>
            /\ runs[i].result = RunOutcome(p, handler, runs[i].input)
            /\ runs[i].pc = "Panicked" <=>
                 RunOutcome(p, handler, runs[i].input) = NoResult)
  /\ [][\A i, j \in RunIds :
          (i # j /\ runs'[i] # runs[i]) => runs'[j] = runs[j]]_vars

C16_Witness ==
  /\ p.preHooks = <<"dbl">>
  /\ p.postHooks = <<"half">>
  /\ p.execute = "xadd"
  /\ runs[1].pc = "PostHooks"
  /\ runs[1].input = 2
  /\ runs[1].value = 7
  /\ runs[2].pc = "Done"
  /\ runs[2].input = 1
  /\ runs[2].result = <<2, NoErr>>

====
